---- MODULE Spec2Model ----
(***************************************************************************)
(* Model of server.js: the weather normaliser getWeatherData, the per-city *)
(* handler factory getCityWeather with its error mapping, and the Express  *)
(* error middleware.                                                       *)
(*                                                                         *)
(* Representation of JavaScript values:                                    *)
(*   - a string is a sequence of fragments, "" is <<>> and + is \o;        *)
(*   - a value that may be undefined is a record with a "defined" flag;    *)
(*   - instants (startTime/endTime strings) are slot numbers;              *)
(*   - Chinese literals are transliterated, the original in the comment.   *)
(***************************************************************************)
EXTENDS Integers, Sequences, FiniteSets

\* ---------------------------------------------------------------- bounds
NumReq   == 2      \* weather requests handled during one run
MaxElems == 2      \* weather elements in an upstream location record
MaxTimes == 2      \* time entries in a weather element's series

\* ------------------------------------------------------- program constants
\* server.js:19-26
CityTable ==
  [ taipei    |-> "Taipei City",
    newtaipei |-> "New Taipei City",
    taoyuan   |-> "Taoyuan City",
    taichung  |-> "Taichung City",
    tainan    |-> "Tainan City",
    kaohsiung |-> "Kaohsiung City" ]

\* the six bound routes, server.js:173-178
CityKeys == DOMAIN CityTable

\* the element codes the switch of server.js:82-101 dispatches on
KnownCodes == {"Wx", "PoP", "MinT", "MaxT", "CI", "WS"}

\* an element code the switch has no case for
UnknownCode == "UVI"

\* "CWA API 錯誤", server.js:129
UpstreamErrorTag == "CWA API error"
\* "伺服器錯誤", server.js:137 and :184
ServerErrorTag == "server error"
\* "請在 .env 檔案中設定 CWA_API_KEY", server.js:35
MissingKeyMessage == <<"set CWA_API_KEY in the .env file">>
\* "無法取得天氣資料", server.js:130
UpstreamFallback == <<"cannot get weather data">>
\* "無法取得天氣資料,請稍後再試", server.js:138
ServerFallback == <<"cannot get weather data, try again later">>

\* `無法取得${cityName}天氣資料`, server.js:54
NoDataMessage(cityName) == <<"cannot get ", cityName, " weather data">>

\* the message of the TypeError the engine raises on reading a property of
\* undefined or null
TypeErrorMessage(prop) == <<"Cannot read properties of undefined (reading '", prop, "')">>

\* ------------------------------------------------------------ JS helpers
\* truthiness of a string (a sequence of fragments)
Truthy(text) == text /= <<>>

\* an Error thrown by the program itself: it has no response property
PlainError(msg) == [message |-> msg, response |-> [defined |-> FALSE]]

Thrown(err) == [ok |-> FALSE, error |-> err]
Returned(v) == [ok |-> TRUE, value |-> v]

\* ------------------------------------------------------- getWeatherData
\* server.js:69-78, the forecast object before the elements are applied
NewForecast(entry) ==
  [ startTime |-> entry.startTime,
    endTime   |-> entry.endTime,
    weather   |-> <<>>,
    rain      |-> <<>>,
    minTemp   |-> <<>>,
    maxTemp   |-> <<>>,
    comfort   |-> <<>>,
    windSpeed |-> <<>> ]

\* variant of ApplyElement: the switch has a default branch that writes the
\* value of an unrecognised element into the weather field
ApplyElementWithDefault(forecast, element, i) ==
  IF i + 1 > Len(element.time)
  THEN Thrown(PlainError(TypeErrorMessage("parameter")))
  ELSE LET value == element.time[i + 1].parameter IN
       IF ~value.defined
       THEN Thrown(PlainError(TypeErrorMessage("parameterName")))
       ELSE LET name == value.parameterName IN
            Returned(
              CASE element.elementName = "Wx"   -> [forecast EXCEPT !.weather = name]
                [] element.elementName = "PoP"  -> [forecast EXCEPT !.rain = name \o <<"%">>]
                [] element.elementName = "MinT" -> [forecast EXCEPT !.minTemp = name \o <<"°C">>]
                [] element.elementName = "MaxT" -> [forecast EXCEPT !.maxTemp = name \o <<"°C">>]
                [] element.elementName = "CI"   -> [forecast EXCEPT !.comfort = name]
                [] element.elementName = "WS"   -> [forecast EXCEPT !.windSpeed = name]
                [] OTHER                        -> [forecast EXCEPT !.weather = name])

\* server.js:81-101, the body of the forEach callback for one element at
\* index i (0-based): reads element.time[i].parameter first, then switches
ApplyElement(forecast, element, i) ==
  IF i + 1 > Len(element.time)
  THEN Thrown(PlainError(TypeErrorMessage("parameter")))
  ELSE LET value == element.time[i + 1].parameter IN
       IF element.elementName \notin KnownCodes
       THEN Returned(forecast)
       ELSE IF ~value.defined
       THEN Thrown(PlainError(TypeErrorMessage("parameterName")))
       ELSE LET name == value.parameterName IN
            Returned(
              CASE element.elementName = "Wx"   -> [forecast EXCEPT !.weather = name]
                [] element.elementName = "PoP"  -> [forecast EXCEPT !.rain = name \o <<"%">>]
                [] element.elementName = "MinT" -> [forecast EXCEPT !.minTemp = name \o <<"°C">>]
                [] element.elementName = "MaxT" -> [forecast EXCEPT !.maxTemp = name \o <<"°C">>]
                [] element.elementName = "CI"   -> [forecast EXCEPT !.comfort = name]
                [] element.elementName = "WS"   -> [forecast EXCEPT !.windSpeed = name])

\* server.js:80-102, weatherElements.forEach from element j (1-based) on
RECURSIVE ForEachElement(_, _, _, _)
ForEachElement(forecast, weatherElements, i, j) ==
  IF j > Len(weatherElements)
  THEN Returned(forecast)
  ELSE LET r == ApplyElement(forecast, weatherElements[j], i) IN
       IF r.ok THEN ForEachElement(r.value, weatherElements, i, j + 1) ELSE r

\* variant of ForecastLoop: each forecast is put in front of the earlier
\* ones (unshift in place of push)
RECURSIVE ForecastLoopPrepending(_, _, _, _)
ForecastLoopPrepending(weatherElements, timeCount, i, forecasts) ==
  IF i >= timeCount
  THEN Returned(forecasts)
  ELSE LET r == ForEachElement(NewForecast(weatherElements[1].time[i + 1]),
                               weatherElements, i, 1) IN
       IF r.ok
       THEN ForecastLoopPrepending(weatherElements, timeCount, i + 1, <<r.value>> \o forecasts)
       ELSE r

\* server.js:68-105, the for loop from index i (0-based) on
RECURSIVE ForecastLoop(_, _, _, _)
ForecastLoop(weatherElements, timeCount, i, forecasts) ==
  IF i >= timeCount
  THEN Returned(forecasts)
  ELSE LET r == ForEachElement(NewForecast(weatherElements[1].time[i + 1]),
                               weatherElements, i, 1) IN
       IF r.ok
       THEN ForecastLoop(weatherElements, timeCount, i + 1, Append(forecasts, r.value))
       ELSE r

\* server.js:50-107, getWeatherData after the await: from the resolved
\* axios response to the returned weatherData or the thrown error
Normalize(cityName, data) ==
  IF ~data.hasRecords
  THEN Thrown(PlainError(TypeErrorMessage("location")))
  ELSE IF Len(data.records.location) = 0
  THEN Thrown(PlainError(NoDataMessage(cityName)))
  ELSE LET locationData == data.records.location[1]
           weatherElements == locationData.weatherElement
       IN  IF Len(weatherElements) = 0
           THEN Thrown(PlainError(TypeErrorMessage("time")))
           ELSE LET timeCount == Len(weatherElements[1].time)
                    r == ForecastLoop(weatherElements, timeCount, 0, <<>>)
                IN  IF r.ok
                    THEN Returned([ city       |-> locationData.locationName,
                                    updateTime |-> data.records.datasetDescription,
                                    forecasts  |-> r.value ])
                    ELSE r

\* server.js:40-48 and 50-107: what `await getWeatherData(cityName)` yields
\* once the upstream call has settled with the given outcome
AfterAwait(cityName, outcome) ==
  IF outcome.kind = "rejected"
  THEN Thrown(outcome.error)
  ELSE Normalize(cityName, outcome.data)

\* ------------------------------------------------------- getCityWeather
\* server.js:119-122
SuccessResponse(weatherData) ==
  [status |-> 200, body |-> [success |-> TRUE, data |-> weatherData]]

\* server.js:136-139
ServerErrorResponse(error) ==
  [ status |-> 500,
    body   |-> [ error   |-> ServerErrorTag,
                 message |-> IF Truthy(error.message) THEN error.message
                             ELSE ServerFallback ] ]

\* server.js:130, error.response.data.message || fallback, for a body that
\* is not null
BodyMessage(body) ==
  IF body.type = "object" /\ body.hasMessage /\ Truthy(body.message)
  THEN body.message
  ELSE UpstreamFallback

\* server.js:123-139, the catch block: the response it sends, or the
\* TypeError it throws itself when error.response.data is null
CatchBlock(error) ==
  IF error.response.defined
  THEN IF error.response.data.type = "null"
       THEN Thrown(PlainError(TypeErrorMessage("message")))
       ELSE Returned([ status |-> error.response.status,
                       body   |-> [ error   |-> UpstreamErrorTag,
                                    message |-> BodyMessage(error.response.data),
                                    details |-> error.response.data ] ])
  ELSE Returned(ServerErrorResponse(error))

\* server.js:115-140, the handler from the point where getWeatherData has
\* settled: Returned(response sent) or Thrown(error the handler rejects with)
Settle(result) ==
  IF result.ok THEN Returned(SuccessResponse(result.value))
  ELSE CatchBlock(result.error)

\* server.js:181-187, the error middleware
ErrorMiddlewareResponse(err) ==
  [status |-> 500, body |-> [error |-> ServerErrorTag, message |-> err.message]]

\* ------------------------------------------------------------ upstream
\* a time series of len entries over consecutive slots from base on, every
\* entry carrying the same parameter
Series(len, base, parameter) ==
  [i \in 1..len |-> [startTime |-> base + i - 1, endTime |-> base + i, parameter |-> parameter]]

NoParameter == [defined |-> FALSE]
Parameter(name) == [defined |-> TRUE, parameterName |-> name]

Element(code, time) == [elementName |-> code, time |-> time]

\* response.data of a resolved call whose records hold the given locations
Payload(location) ==
  [ hasRecords |-> TRUE,
    records    |-> [datasetDescription |-> "36-hour forecast", location |-> location] ]

\* response.data without a records property
NoRecords == [hasRecords |-> FALSE]

LocationRecord(name, weatherElement) ==
  [locationName |-> name, weatherElement |-> weatherElement]

Resolved(data) == [kind |-> "resolved", data |-> data]

\* the axios call rejects without an upstream response (network failure)
NetworkFailure(msg) ==
  [kind |-> "rejected", error |-> [message |-> msg, response |-> [defined |-> FALSE]]]

\* the axios call rejects with the upstream's response attached
HttpFailure(status, data) ==
  [ kind  |-> "rejected",
    error |-> [ message  |-> <<"Request failed with status code">>,
                response |-> [defined |-> TRUE, status |-> status, data |-> data] ] ]

NullBody == [type |-> "null"]
ObjectBody == [type |-> "object", hasMessage |-> FALSE]
MessageBody(msg) == [type |-> "object", hasMessage |-> TRUE, message |-> msg]

\* a record whose elements are aligned over MaxTimes slots
AlignedRecord(name) ==
  LocationRecord(name, << Element("Wx",  Series(MaxTimes, 0, Parameter(<<"cloudy">>))),
                          Element("PoP", Series(MaxTimes, 0, Parameter(<<"20">>))) >>)

\* the outcomes the upstream call of a request may settle with
Outcomes ==
  { NetworkFailure(<<"timeout">>),
    NetworkFailure(<<>>),
    HttpFailure(503, MessageBody(<<"maintenance">>)),
    HttpFailure(503, NullBody),
    HttpFailure(404, ObjectBody),
    HttpFailure(404, MessageBody(<<>>)),
    Resolved(NoRecords),
    Resolved(Payload(<<>>)),
    Resolved(Payload(<<AlignedRecord(CityTable.taipei)>>)),
    Resolved(Payload(<<AlignedRecord(CityTable.kaohsiung)>>)) }

\* process.env.CWA_API_KEY: unset, set to the empty string, or set
ApiKeys == { [defined |-> FALSE], [defined |-> TRUE, value |-> <<>>],
             [defined |-> TRUE, value |-> <<"key">>] }

\* variant of KeyMissing: the check compares with undefined only, so an
\* empty credential passes it
KeyMissingWhenUnset(key) == ~key.defined

\* !CWA_API_KEY, server.js:34
KeyMissing(key) == ~key.defined \/ ~Truthy(key.value)

\* --------------------------------------------------------------- state
VARIABLES
  env,           \* process.env.CWA_API_KEY as dotenv loaded it, server.js:1
  CITY_MAP,      \* server.js:19-26, the object the handlers look cities up in
  CWA_API_KEY,   \* server.js:11, copied from the environment at startup
  pc,            \* position of each request's handler
  cityKey,       \* the key the handler of each request is bound to
  cityName,      \* the handler's local cityName, server.js:116
  gets,          \* the upstream GETs each request has issued, server.js:40
  settled,       \* the outcome each request's upstream call settled with
  sent,          \* the HTTP responses sent for each request
  pending,       \* the error a handler's promise rejected with
  overlap        \* whether a handler has resumed while another request was in flight

serverVars == <<env, CITY_MAP, CWA_API_KEY, pc, cityKey, cityName, gets, settled, sent, pending, overlap>>

\* one request followed through getWeatherData and the handler on a payload,
\* then once more on a rearranged copy of the same payload
VARIABLES
  stage,         \* "off", "received", "answered", "reordered" or "extended"
  probeKey,      \* the key the probed handler is bound to
  raw,           \* response.data of the resolved upstream call
  answer,        \* what the handler does with raw
  edit,          \* how the copy was derived from raw
  rawCopy,       \* the rearranged response.data
  answerCopy     \* what the handler does with rawCopy

probeVars == <<stage, probeKey, raw, answer, edit, rawCopy, answerCopy>>

Requests == 1..NumReq

NoOutcome == [kind |-> "none"]
NoError == [message |-> <<>>, response |-> [defined |-> FALSE]]

InitServer ==
  /\ env \in ApiKeys
  /\ CITY_MAP = CityTable
  /\ CWA_API_KEY = env
  /\ pc = [r \in Requests |-> "idle"]
  /\ cityKey = [r \in Requests |-> "unbound"]
  /\ cityName = [r \in Requests |-> "unbound"]
  /\ gets = [r \in Requests |-> <<>>]
  /\ settled = [r \in Requests |-> NoOutcome]
  /\ sent = [r \in Requests |-> <<>>]
  /\ pending = [r \in Requests |-> NoError]
  /\ overlap = FALSE

\* the handler of request r ends with the given result of Settle: it has
\* sent a response, or its promise rejects with the error the catch threw
Finish(r, s) ==
  IF s.ok
  THEN /\ sent' = [sent EXCEPT ![r] = Append(@, s.value)]
       /\ pc' = [pc EXCEPT ![r] = "done"]
       /\ UNCHANGED pending
  ELSE /\ pending' = [pending EXCEPT ![r] = s.error]
       /\ pc' = [pc EXCEPT ![r] = "rejected"]
       /\ UNCHANGED sent

\* server.js:113-117 and 32-48: a request arrives on the route bound to
\* key; the handler runs up to the await of the upstream GET, or, without a
\* credential, through the throw of line 35 and the catch block
Arrive(r, key) ==
  /\ pc[r] = "idle"
  /\ cityKey' = [cityKey EXCEPT ![r] = key]
  /\ cityName' = [cityName EXCEPT ![r] = CITY_MAP[key]]
  /\ IF KeyMissing(CWA_API_KEY)
     THEN /\ Finish(r, Settle(Thrown(PlainError(MissingKeyMessage))))
          /\ UNCHANGED gets
     ELSE /\ gets' = [gets EXCEPT ![r] =
                        Append(@, [Authorization |-> CWA_API_KEY.value,
                                   locationName  |-> CITY_MAP[key]])]
          /\ pc' = [pc EXCEPT ![r] = "awaiting"]
          /\ UNCHANGED <<sent, pending>>
  /\ UNCHANGED <<env, CITY_MAP, CWA_API_KEY, settled, overlap>>
  /\ UNCHANGED probeVars

\* variant of Resume: a failed upstream call is tried once more before the
\* handler gives up
ResumeRetrying(r, outcome) ==
  /\ pc[r] = "awaiting"
  /\ settled' = [settled EXCEPT ![r] = outcome]
  /\ overlap' = (overlap \/ \E q \in Requests \ {r} : pc[q] = "awaiting")
  /\ IF outcome.kind = "rejected" /\ Len(gets[r]) < 2
     THEN /\ gets' = [gets EXCEPT ![r] = Append(@, @[1])]
          /\ UNCHANGED <<pc, sent, pending>>
     ELSE /\ Finish(r, Settle(AfterAwait(cityName[r], outcome)))
          /\ UNCHANGED gets
  /\ UNCHANGED <<env, CITY_MAP, CWA_API_KEY, cityKey, cityName>>
  /\ UNCHANGED probeVars

\* variant of Resume: cityName is one variable of the module that every
\* arriving request overwrites, so a resuming handler may read the name
\* another request has put there
ResumeSharedCity(r, outcome) ==
  /\ pc[r] = "awaiting"
  /\ settled' = [settled EXCEPT ![r] = outcome]
  /\ overlap' = (overlap \/ \E q \in Requests \ {r} : pc[q] = "awaiting")
  /\ \E q \in Requests :
       /\ pc[q] /= "idle"
       /\ Finish(r, Settle(AfterAwait(cityName[q], outcome)))
  /\ UNCHANGED <<env, CITY_MAP, CWA_API_KEY, cityKey, cityName, gets>>
  /\ UNCHANGED probeVars

\* server.js:40-139: the upstream call of request r settles with outcome
\* and the handler resumes, normalises or catches, and responds
Resume(r, outcome) ==
  /\ pc[r] = "awaiting"
  /\ settled' = [settled EXCEPT ![r] = outcome]
  /\ overlap' = (overlap \/ \E q \in Requests \ {r} : pc[q] = "awaiting")
  /\ Finish(r, Settle(AfterAwait(cityName[r], outcome)))
  /\ UNCHANGED <<env, CITY_MAP, CWA_API_KEY, cityKey, cityName, gets>>
  /\ UNCHANGED probeVars

\* server.js:181-187: a dispatcher that forwards a rejected handler promise
\* (Express 5) runs the error middleware, which answers with 500
ErrorMiddleware(r) ==
  /\ pc[r] = "rejected"
  /\ sent' = [sent EXCEPT ![r] = Append(@, ErrorMiddlewareResponse(pending[r]))]
  /\ pc' = [pc EXCEPT ![r] = "done"]
  /\ UNCHANGED <<env, CITY_MAP, CWA_API_KEY, cityKey, cityName, gets, settled, pending, overlap>>
  /\ UNCHANGED probeVars

\* server.js:114: a dispatcher that ignores the promise an async handler
\* returns (Express 4) leaves the rejection unhandled and the request
\* without any response
UnhandledRejection(r) ==
  /\ pc[r] = "rejected"
  /\ pc' = [pc EXCEPT ![r] = "unanswered"]
  /\ UNCHANGED <<env, CITY_MAP, CWA_API_KEY, cityKey, cityName, gets, settled, sent, pending, overlap>>
  /\ UNCHANGED probeVars

\* ------------------------------------------------------ the normaliser
\* the series a weather element may carry: the full one, two shorter ones, one
\* over shifted slots, one of empty texts, one of entries without parameter
SeriesPool ==
  { Series(n, 0, Parameter(<<"7">>)) : n \in {0, MaxTimes - 1, MaxTimes} }
    \cup { Series(MaxTimes, 1, Parameter(<<"7">>)),
           Series(MaxTimes, 0, Parameter(<<>>)),
           Series(MaxTimes, 0, NoParameter) }

ElementPool == { Element(code, time) : code \in KnownCodes \cup {UnknownCode}, time \in SeriesPool }

UnknownPool == { Element(UnknownCode, time) : time \in SeriesPool }

ElementLists == UNION { [1..n -> ElementPool] : n \in 0..MaxElems }

\* the keys the probed handler is bound to
ProbeKeys == {"taichung"}

RawResponses(key) == { Payload(<<LocationRecord(CityTable[key], elements)>>) : elements \in ElementLists }

Orders(n) == { p \in [1..n -> 1..n] : \A i, j \in 1..n : p[i] = p[j] => i = j }

\* the payload with the elements of its location record rearranged by p
Reordered(data, p) ==
  LET rec == data.records.location[1] IN
  Payload(<<LocationRecord(rec.locationName,
                           [i \in 1..Len(rec.weatherElement) |-> rec.weatherElement[p[i]]])>>)

\* the payload with element inserted after the first pos elements
Extended(data, element, pos) ==
  LET rec == data.records.location[1]
      we  == rec.weatherElement IN
  Payload(<<LocationRecord(rec.locationName,
                           SubSeq(we, 1, pos) \o <<element>> \o SubSeq(we, pos + 1, Len(we)))>>)

\* server.js:113-139 for a resolved upstream call, with the credential set
Handle(key, data) == Settle(AfterAwait(CITY_MAP[key], Resolved(data)))

NoAnswer == [ok |-> FALSE, error |-> NoError]
NoEdit == [kind |-> "none"]

ProbeOff ==
  /\ stage = "off"
  /\ probeKey = "unbound"
  /\ raw = NoRecords
  /\ answer = NoAnswer
  /\ edit = NoEdit
  /\ rawCopy = NoRecords
  /\ answerCopy = NoAnswer

InitProbe ==
  /\ stage = "received"
  /\ probeKey \in ProbeKeys
  /\ raw \in RawResponses(probeKey)
  /\ answer = NoAnswer
  /\ edit = NoEdit
  /\ rawCopy = NoRecords
  /\ answerCopy = NoAnswer

\* the handler bound to probeKey resumes with raw and responds
Answer ==
  /\ stage = "received"
  /\ answer' = Handle(probeKey, raw)
  /\ stage' = "answered"
  /\ UNCHANGED <<probeKey, raw, edit, rawCopy, answerCopy>>
  /\ UNCHANGED serverVars

\* the same request on the payload with its elements in another order
AnswerReordered(p) ==
  /\ stage = "answered"
  /\ edit' = [kind |-> "reorder", p |-> p]
  /\ rawCopy' = Reordered(raw, p)
  /\ answerCopy' = Handle(probeKey, Reordered(raw, p))
  /\ stage' = "reordered"
  /\ UNCHANGED <<probeKey, raw, answer>>
  /\ UNCHANGED serverVars

\* the same request on the payload with one more element, of a code the
\* switch does not know
AnswerExtended(element, pos) ==
  /\ stage = "answered"
  /\ edit' = [kind |-> "extend", element |-> element, pos |-> pos]
  /\ rawCopy' = Extended(raw, element, pos)
  /\ answerCopy' = Handle(probeKey, Extended(raw, element, pos))
  /\ stage' = "extended"
  /\ UNCHANGED <<probeKey, raw, answer>>
  /\ UNCHANGED serverVars

Elements(data) == data.records.location[1].weatherElement

NextNormalizer ==
  \/ Answer
  \/ \E p \in Orders(Len(Elements(raw))) : AnswerReordered(p)
  \/ \E element \in UnknownPool, pos \in 0..Len(Elements(raw)) : AnswerExtended(element, pos)

Init == InitServer /\ ProbeOff

Next ==
  \/ \E r \in Requests, key \in CityKeys : Arrive(r, key)
  \/ \E r \in Requests, outcome \in Outcomes : Resume(r, outcome)
  \/ \E r \in Requests : ErrorMiddleware(r)
  \/ \E r \in Requests : UnhandledRejection(r)

vars == <<serverVars, probeVars>>

Spec == Init /\ [][Next]_vars

\* the server at rest with a credential, the probe armed
InitNormalizer ==
  /\ InitServer
  /\ ~KeyMissing(CWA_API_KEY)
  /\ InitProbe

SpecNormalizer == InitNormalizer /\ [][NextNormalizer]_vars

\* ================================================================ claims
\* a handler that has run to its end, with or without a response
Ended(r) == pc[r] \in {"done", "unanswered"}

\* no credential is configured: the variable is unset or empty
NoCredential == ~CWA_API_KEY.defined \/ CWA_API_KEY.value = <<>>

\* C1: every handler invocation that has ended has sent exactly one
\* response, and no invocation ever sends two.
C1_ExactlyOneResponse ==
  \A r \in Requests :
    /\ Len(sent[r]) <= 1
    /\ Ended(r) => Len(sent[r]) = 1

\* the message the mapping is to give for upstream body b: b.message when
\* b carries a non-empty one, the generic fallback otherwise
C2_Message(b) ==
  IF b.type = "object" /\ b.hasMessage /\ b.message /= <<>> THEN b.message
  ELSE <<"cannot get weather data">>

\* C2: when the upstream GET fails with a response of status s and body b,
\* the handler answers with status s, the upstream-error tag, b.message or
\* the fallback as message, and b itself as details.
C2_UpstreamErrorPassedThrough ==
  \A r \in Requests :
    (Ended(r) /\ settled[r].kind = "rejected" /\ settled[r].error.response.defined) =>
      LET s == settled[r].error.response.status
          b == settled[r].error.response.data
      IN  sent[r] = << [ status |-> s,
                         body   |-> [ error   |-> "CWA API error",
                                      message |-> C2_Message(b),
                                      details |-> b ] ] >>

\* the location collection of request r's payload holds no record for the
\* locale of the key r is bound to
C3_LocaleAbsent(r) ==
  /\ settled[r].kind = "resolved"
  /\ settled[r].data.hasRecords
  /\ \A i \in 1..Len(settled[r].data.records.location) :
       settled[r].data.records.location[i].locationName /= CityTable[cityKey[r]]

\* C3: when the upstream call succeeds but the location collection holds
\* no record for the requested locale (it is empty or holds other locales
\* only), the client receives a 500 whose message names the requested city.
C3_MissingLocaleIs500 ==
  \A r \in Requests :
    (Ended(r) /\ C3_LocaleAbsent(r)) =>
      /\ Len(sent[r]) = 1
      /\ sent[r][1].status = 500
      /\ \E j \in 1..Len(sent[r][1].body.message) :
           sent[r][1].body.message[j] = CityTable[cityKey[r]]

\* C4: without a credential no request ever issues an upstream GET, and
\* every request that has arrived has been answered with a 500 carrying the
\* server-error tag and the missing-credential message.
C4_NoCredentialNoCall ==
  NoCredential =>
    \A r \in Requests :
      /\ gets[r] = <<>>
      /\ pc[r] /= "idle" =>
           /\ pc[r] = "done"
           /\ sent[r] = << [ status |-> 500,
                             body   |-> [ error   |-> "server error",
                                          message |-> <<"set CWA_API_KEY in the .env file">> ] ] >>

\* witness of C4: without a credential, a request has arrived and has been
\* answered
C4_Witness ==
  /\ NoCredential
  /\ \E r \in Requests : pc[r] = "done" /\ Len(sent[r]) = 1 /\ cityKey[r] = "tainan"

\* the response an answered request is to have, as a function of its own
\* key and its own upstream outcome alone
C9_Expected(r) ==
  IF settled[r].kind = "none"
  THEN ServerErrorResponse(PlainError(MissingKeyMessage))
  ELSE LET s == Settle(AfterAwait(CityTable[cityKey[r]], settled[r]))
       IN  IF s.ok THEN s.value ELSE ErrorMiddlewareResponse(s.error)

C9_Own(r) == pc[r] = "done" => sent[r] = <<C9_Expected(r)>>

\* C9: under every interleaving of in-flight requests, the configuration
\* (credential, city table) still has its startup value and every response
\* is the one the request's own key and own upstream outcome determine.
C9_RequestsIndependent ==
  /\ CWA_API_KEY = env
  /\ CITY_MAP = CityTable
  /\ \A r \in Requests : C9_Own(r)

\* witness of C9: two requests for different cities were in flight together
\* and both have been answered, each from a different upstream outcome
C9_Witness ==
  \E r, q \in Requests :
    /\ r /= q
    /\ pc[r] = "done" /\ pc[q] = "done"
    /\ overlap
    /\ cityKey[r] /= cityKey[q]
    /\ settled[r] = Resolved(Payload(<<>>))
    /\ settled[q] = Resolved(Payload(<<AlignedRecord(CityTable.kaohsiung)>>))
    /\ sent[r] /= sent[q]

\* C10: a request issues at most one upstream GET in its whole life; an
\* answered or abandoned request that had a credential issued exactly one,
\* for its own locale, whatever the outcome of that call was.
C10_SingleUpstreamCall ==
  \A r \in Requests :
    /\ Len(gets[r]) <= 1
    /\ (pc[r] \in {"done", "rejected", "unanswered"} /\ ~NoCredential) =>
         /\ Len(gets[r]) = 1
         /\ gets[r][1].locationName = CityTable[cityKey[r]]
         /\ settled[r].kind /= "none"

\* witness of C10: a request whose upstream call failed has been answered
\* with an error after a single GET
C10_Witness ==
  \E r \in Requests :
    /\ pc[r] = "done"
    /\ settled[r].kind = "rejected"
    /\ Len(gets[r]) = 1
    /\ sent[r][1].status = 503

\* ---- claims about the normaliser, under SpecNormalizer
Answered == stage \in {"answered", "reordered", "extended"}

FirstSeries(data) == Elements(data)[1].time

\* the payload honours the upstream contract on its shape: at least one
\* element, every series as long as the first, every entry with a parameter
WellFormed(data) ==
  /\ Len(Elements(data)) >= 1
  /\ \A j \in 1..Len(Elements(data)) :
       /\ Len(Elements(data)[j].time) = Len(FirstSeries(data))
       /\ \A i \in 1..Len(Elements(data)[j].time) : Elements(data)[j].time[i].parameter.defined

Present(data, code) == \E j \in 1..Len(Elements(data)) : Elements(data)[j].elementName = code

\* the last element of the record carrying the code
LastWith(data, code) ==
  LET js == { j \in 1..Len(Elements(data)) : Elements(data)[j].elementName = code }
  IN  Elements(data)[CHOOSE j \in js : \A k \in js : k <= j]

FieldOf == [ Wx |-> "weather", PoP |-> "rain", MinT |-> "minTemp",
             MaxT |-> "maxTemp", CI |-> "comfort", WS |-> "windSpeed" ]

\* the success envelope has one forecast per entry of the first series, in
\* order, with that entry's start and end
C5_Intervals(data, resp) ==
  /\ resp.status = 200
  /\ Len(resp.body.data.forecasts) = Len(FirstSeries(data))
  /\ \A i \in 1..Len(FirstSeries(data)) :
       /\ resp.body.data.forecasts[i].startTime = FirstSeries(data)[i].startTime
       /\ resp.body.data.forecasts[i].endTime = FirstSeries(data)[i].endTime

\* C5 as stated: for a well-formed payload whose first element has N time
\* entries the forecasts are N, in upstream order, with the first element's
\* start and end, and each of the six fields is non-empty whenever an
\* element with its code is present.
C5_AllFieldsNonEmpty ==
  (Answered /\ WellFormed(raw)) =>
    /\ answer.ok
    /\ C5_Intervals(raw, answer.value)
    /\ \A i \in 1..Len(FirstSeries(raw)) : \A code \in KnownCodes :
         Present(raw, code) => answer.value.body.data.forecasts[i][FieldOf[code]] /= <<>>

\* C5 amended: as C5, but weather, comfort and windSpeed are non-empty only
\* when the last element with the code carries a non-empty parameterName at
\* that index; rain, minTemp and maxTemp are non-empty whenever present.
C5_FieldsFollowUpstream ==
  (Answered /\ WellFormed(raw)) =>
    /\ answer.ok
    /\ C5_Intervals(raw, answer.value)
    /\ \A i \in 1..Len(FirstSeries(raw)) : \A code \in KnownCodes :
         Present(raw, code) =>
           LET field == answer.value.body.data.forecasts[i][FieldOf[code]]
               name  == LastWith(raw, code).time[i].parameter.parameterName
           IN  /\ code \in {"PoP", "MinT", "MaxT"} => field /= <<>>
               /\ code \in {"Wx", "CI", "WS"} => (field /= <<>> <=> name /= <<>>)

\* witness of C5: a well-formed payload of MaxTimes intervals with a weather
\* element and a rain element has been normalised into MaxTimes forecasts
C5_Witness ==
  /\ stage = "answered"
  /\ WellFormed(raw)
  /\ Len(FirstSeries(raw)) = MaxTimes
  /\ Present(raw, "Wx") /\ Present(raw, "PoP")
  /\ answer.ok /\ answer.value.status = 200
  /\ Len(answer.value.body.data.forecasts) = MaxTimes
  /\ answer.value.body.data.forecasts[MaxTimes].weather = <<"7">>

\* C6: whatever the payload, rearranging the elements of its location
\* record leaves the outcome of the request unchanged.
C6_OrderIrrelevant == stage = "reordered" => answerCopy = answer

Slots(time) == [i \in 1..Len(time) |-> <<time[i].startTime, time[i].endTime>>]

\* the added element keeps clear of what the loop reads: it comes after the
\* first element with a series at least as long as the first element's, or
\* in front of it with a series over exactly the first element's slots
C7_Harmless ==
  /\ Len(Elements(raw)) >= 1
  /\ \/ edit.pos >= 1 /\ Len(edit.element.time) >= Len(FirstSeries(raw))
     \/ edit.pos = 0 /\ Slots(edit.element.time) = Slots(FirstSeries(raw))

C8_MisalignedIsError ==
  (Answered /\ Len(Elements(raw)) >= 1
     /\ \E j \in 1..Len(Elements(raw)) : Len(Elements(raw)[j].time) /= Len(FirstSeries(raw))) =>
    answer.ok /\ answer.value.status /= 200

====
